---- MODULE Spec2Model ----
(***************************************************************************)
(* Ledger core of fastapi_banco (main.py, models.py): the three tables     *)
(* users / accounts / transactions and the request handlers criar_usuario, *)
(* login, criar_conta, criar_transacao and extrato.  Every handler is a    *)
(* coroutine that                                                          *)
(* owns a private AsyncSession; it is suspended at each `await`, so the    *)
(* handlers of different requests interleave at those points.  One action  *)
(* of the model is one stretch of a handler from one storage round trip to *)
(* the next: the round trip itself plus the synchronous code that follows  *)
(* it up to the next await.  A session.refresh after a commit reads rows   *)
(* only into the session that is about to be closed, so it is part of the  *)
(* commit's action: the action ends with the handler's return, or with the *)
(* refresh raising.                                                        *)
(*                                                                         *)
(* Amounts and balances are modelled as integers (exactly representable    *)
(* float values); float rounding, NaN and infinities are outside the model.*)
(***************************************************************************)
EXTENDS Integers, Sequences, FiniteSets, TLC

\* ---- bounds of the model ------------------------------------------------
MaxRows     == 4      \* Account plus Transaction objects ever constructed
MaxAmount   == 2      \* largest amount a request may carry

\* the request slots: two handlers may be in flight at once
Requests  == {"r1", "r2"}
Usernames == {"alice", "bob"}
Amounts   == -1..MaxAmount
Types     == {"deposit", "withdrawal", "transfer"}
\* the password every registration carries, and the passwords a login tries
SenhaCadastro == "s3nha"
Senhas    == {"s3nha", "errada"}

VARIABLES
    users,         \* table users: sequence of rows, the row's id is its index
    accounts,      \* table accounts: sequence of rows [user_id, balance]
    transactions,  \* table transactions: sequence of rows
    relogio,       \* datetime.now(timezone.utc), as a logical clock
    pc,            \* per request slot: the await the handler is suspended at
    req,           \* per request slot: the operation and its arguments
    session,       \* per request slot: the objects held by its AsyncSession
    resp           \* the response being sent: the request it answers and its outcome

vars == <<users, accounts, transactions, relogio, pc, req, session, resp>>
db   == <<users, accounts, transactions>>

\* ---- responses ------------------------------------------------------------
NoResp                 == [status |-> 0,   detail |-> ""]
Ok                     == [status |-> 200, detail |-> ""]
DuplicateUsername      == [status |-> 400, detail |-> "Usuario ja existe"]
Unauthorized           == [status |-> 403, detail |-> "Nao autorizado"]
InvalidAmount          == [status |-> 400, detail |-> "O valor deve ser positivo"]
InvalidTransactionType == [status |-> 400, detail |-> "Tipo de transacao invalido"]
InsufficientFunds      == [status |-> 400, detail |-> "Saldo insuficiente"]
InternalError          == [status |-> 500, detail |-> "Internal Server Error"]
InvalidCredentials     == [status |-> 401, detail |-> "Usuario ou senha invalidos"]
NoAccountsFound        == [status |-> 404, detail |-> "Nenhuma conta encontrada"]

\* ---- request and session records -----------------------------------------
NoResposta == [de |-> [op |-> "none", username |-> "", password |-> "",
                         current_user |-> 0, user_id |-> 0,
                         account_id |-> 0, amount |-> 0, type |-> ""],
               status |-> NoResp.status, detail |-> NoResp.detail, id |-> 0,
               body |-> <<>>]

NoReq == [op |-> "none", username |-> "", password |-> "",
          current_user |-> 0, user_id |-> 0,
          account_id |-> 0, amount |-> 0, type |-> ""]

NoSession == [usuario_id |-> 0, conta_id |-> 0, balance |-> 0, timestamp |-> 0,
              account_ids |-> {}]

\* the handler of slot p ends, by return or by raise, with response r to
\* request q (id: the id of the row a successful request returns); leaving
\* the `async with` block closes the session
Responde(p, q, r, id) ==
    /\ pc' = [pc EXCEPT ![p] = "idle"]
    /\ req' = [req EXCEPT ![p] = NoReq]
    /\ session' = [session EXCEPT ![p] = NoSession]
    /\ resp' = [de |-> q, status |-> r.status, detail |-> r.detail, id |-> id,
                body |-> <<>>]

\* the handler of slot p returns a list of rows, given by their ids
RespondeLista(p, q, ids) ==
    /\ pc' = [pc EXCEPT ![p] = "idle"]
    /\ req' = [req EXCEPT ![p] = NoReq]
    /\ session' = [session EXCEPT ![p] = NoSession]
    /\ resp' = [de |-> q, status |-> Ok.status, detail |-> Ok.detail, id |-> 0,
                body |-> ids]

\* the handler of slot p, serving request q, is suspended at await `at`
\* holding the session objects s
Suspende(p, q, at, s) ==
    /\ pc' = [pc EXCEPT ![p] = at]
    /\ req' = [req EXCEPT ![p] = q]
    /\ session' = [session EXCEPT ![p] = s]
    /\ UNCHANGED resp

\* result.scalars().first() of select(Account).where(Account.id == id):
\* the row as a one-element sequence, or <<>> for None
SelectAccount(id) ==
    IF id \in 1..Len(accounts)
    THEN <<[id |-> id, user_id |-> accounts[id].user_id,
            balance |-> accounts[id].balance]>>
    ELSE <<>>

\* variant of UsuarioExiste that finds no row
UsuarioExiste_nenhum(username) == FALSE

\* select(Usuario).where(Usuario.username == username) ... .first() is truthy
UsuarioExiste(username) ==
    \E u \in 1..Len(users) : users[u].username = username

\* pwd_context.hash(password): the hash is told from the password and
\* from the hash of any other password
hash_password(password) == <<"bcrypt", password>>

\* pwd_context.verify(plain_password, hashed_password)
verify_password(plain_password, hashed_password) ==
    hashed_password = <<"bcrypt", plain_password>>

\* select(Usuario).where(Usuario.username == username) ... .first(): the row
\* with its id as a one-element sequence, or <<>> for None
SelectUsuario(username) ==
    IF \E u \in 1..Len(users) : users[u].username = username
    THEN LET u == CHOOSE u \in 1..Len(users) : users[u].username = username
         IN  <<[id |-> u, username |-> users[u].username,
                password |-> users[u].password]>>
    ELSE <<>>

\* variant of NaoAutorizado that lets every caller through
NaoAutorizado_nunca(user_id, current_user) == FALSE

\* extrato: user_id != current_user
NaoAutorizado(user_id, current_user) == user_id # current_user

\* variant of SelectAccountIds without the where clause
SelectAccountIds_todas(user_id) == 1..Len(accounts)

\* [row[0] for row in select(Account.id).where(Account.user_id == user_id)]
SelectAccountIds(user_id) ==
    {a \in 1..Len(accounts) : accounts[a].user_id = user_id}

\* the ids, in table order, of the first n rows of select(Transaction)
\* .where(Transaction.account_id.in_(account_ids))
RECURSIVE SelectTransactions(_, _)
SelectTransactions(account_ids, n) ==
    IF n = 0 THEN <<>>
    ELSE IF transactions[n].account_id \in account_ids
         THEN Append(SelectTransactions(account_ids, n - 1), n)
         ELSE SelectTransactions(account_ids, n - 1)

\* Column(String, unique=True): the INSERT of a second row with this username
\* raises IntegrityError
ViolaUnique(username) ==
    \E u \in 1..Len(users) : users[u].username = username

\* variants of Validar: the funds check left out; amount < 0 for amount <= 0;
\* the amount checked before the owner; a missing account told apart from
\* another user's account
Validar_semSaldo(conta, current_user, amount, type) ==
    IF conta = <<>> \/ conta[1].user_id # current_user THEN Unauthorized
    ELSE IF amount <= 0 THEN InvalidAmount
    ELSE IF type \notin {"deposit", "withdrawal"} THEN InvalidTransactionType
    ELSE Ok

Validar_menorQue(conta, current_user, amount, type) ==
    IF conta = <<>> \/ conta[1].user_id # current_user THEN Unauthorized
    ELSE IF amount < 0 THEN InvalidAmount
    ELSE IF type \notin {"deposit", "withdrawal"} THEN InvalidTransactionType
    ELSE IF type = "withdrawal" /\ amount > conta[1].balance THEN InsufficientFunds
    ELSE Ok

Validar_valorAntes(conta, current_user, amount, type) ==
    IF amount <= 0 THEN InvalidAmount
    ELSE IF conta = <<>> \/ conta[1].user_id # current_user THEN Unauthorized
    ELSE IF type \notin {"deposit", "withdrawal"} THEN InvalidTransactionType
    ELSE IF type = "withdrawal" /\ amount > conta[1].balance THEN InsufficientFunds
    ELSE Ok

Validar_contaInexistente(conta, current_user, amount, type) ==
    IF conta = <<>> THEN [status |-> 404, detail |-> "Conta nao encontrada"]
    ELSE IF conta[1].user_id # current_user THEN Unauthorized
    ELSE IF amount <= 0 THEN InvalidAmount
    ELSE IF type \notin {"deposit", "withdrawal"} THEN InvalidTransactionType
    ELSE IF type = "withdrawal" /\ amount > conta[1].balance THEN InsufficientFunds
    ELSE Ok

\* variants of Validar: the owner of an existing account not compared with
\* the caller; the type not checked
Validar_semDono(conta, current_user, amount, type) ==
    IF conta = <<>> THEN Unauthorized
    ELSE IF amount <= 0 THEN InvalidAmount
    ELSE IF type \notin {"deposit", "withdrawal"} THEN InvalidTransactionType
    ELSE IF type = "withdrawal" /\ amount > conta[1].balance THEN InsufficientFunds
    ELSE Ok

Validar_semTipo(conta, current_user, amount, type) ==
    IF conta = <<>> \/ conta[1].user_id # current_user THEN Unauthorized
    ELSE IF amount <= 0 THEN InvalidAmount
    ELSE IF type = "withdrawal" /\ amount > conta[1].balance THEN InsufficientFunds
    ELSE Ok

\* the chain of checks of criar_transacao, in the order of the code
Validar(conta, current_user, amount, type) ==
    IF conta = <<>> \/ conta[1].user_id # current_user THEN Unauthorized
    ELSE IF amount <= 0 THEN InvalidAmount
    ELSE IF type \notin {"deposit", "withdrawal"} THEN InvalidTransactionType
    ELSE IF type = "withdrawal" /\ amount > conta[1].balance THEN InsufficientFunds
    ELSE Ok

\* variants of NovoSaldo with a slip in the sign
NovoSaldo_soma(balance, amount, type) == balance + amount

NovoSaldo_invertido(balance, amount, type) ==
    IF type = "deposit" THEN balance - amount ELSE balance + amount

\* conta.balance += amount if type == "deposit" else -amount
NovoSaldo(balance, amount, type) ==
    IF type = "deposit" THEN balance + amount ELSE balance - amount

\* requests in flight that will still insert an accounts row
CriandoConta ==
    {q \in Requests : pc[q] \in {"commit_usuario", "commit_conta", "commit_nova_conta"}}

\* the model stops accepting requests that construct a row once MaxRows
\* Account and Transaction objects have been constructed
CabeMais == Len(accounts) + Cardinality(CriandoConta) + relogio < MaxRows

\* the account ids a request may name: every existing one and one that
\* does not exist
AccountIds == 1..(Len(accounts) + 1)

Init ==
    /\ users = <<>>
    /\ accounts = <<>>
    /\ transactions = <<>>
    /\ relogio = 0
    /\ pc = [p \in Requests |-> "idle"]
    /\ req = [p \in Requests |-> NoReq]
    /\ session = [p \in Requests |-> NoSession]
    /\ resp = NoResposta

\* ---- the event loop --------------------------------------------------------
\* the response of a finished handler is written to its client before the
\* loop runs the next stretch of any handler: every stretch starts with no
\* response pending
Livre == resp = NoResposta

entrega ==
    /\ ~Livre
    /\ resp' = NoResposta
    /\ UNCHANGED <<db, relogio, pc, req, session>>

\* ---- criar_usuario (POST /usuarios/) -------------------------------------
\* the select by username and the check of its result
criar_usuario_select(p) ==
    /\ Livre
    /\ pc[p] = "idle"
    /\ \E username \in Usernames :
        LET q == [NoReq EXCEPT !.op = "criar_usuario", !.username = username,
                               !.password = SenhaCadastro]
        IN  IF UsuarioExiste(username)
            THEN Responde(p, q, DuplicateUsername, 0)
            ELSE /\ CabeMais
                 /\ Suspende(p, q, "commit_usuario", NoSession)
    /\ UNCHANGED <<db, relogio>>

\* first session.commit(): INSERT INTO users, the column username is UNIQUE;
\* then session.refresh(novo_usuario), conta = Account(...), session.add(conta)
criar_usuario_commit(p) ==
    /\ Livre
    /\ pc[p] = "commit_usuario"
    /\ IF ViolaUnique(req[p].username)
       THEN /\ Responde(p, req[p], InternalError, 0)
            /\ UNCHANGED users
       ELSE /\ users' = Append(users, [username |-> req[p].username,
                                        password |-> hash_password(req[p].password)])
            /\ Suspende(p, req[p], "commit_conta",
                        [session[p] EXCEPT !.usuario_id = Len(users) + 1])
    /\ UNCHANGED <<accounts, transactions, relogio>>

\* variant of criar_usuario_commit_conta whose account goes to the user
\* registered last
criar_usuario_commit_conta_ultimo(p) ==
    /\ Livre
    /\ pc[p] = "commit_conta"
    /\ accounts' = Append(accounts, [user_id |-> Len(users), balance |-> 0])
    /\ \/ Responde(p, req[p], Ok, session[p].usuario_id)
       \/ Responde(p, req[p], InternalError, 0)
    /\ UNCHANGED <<users, transactions, relogio>>

\* second session.commit(): INSERT INTO accounts; then session.refresh(conta)
\* and return novo_usuario, or the refresh raises
criar_usuario_commit_conta(p) ==
    /\ Livre
    /\ pc[p] = "commit_conta"
    /\ accounts' = Append(accounts, [user_id |-> session[p].usuario_id, balance |-> 0])
    /\ \/ Responde(p, req[p], Ok, session[p].usuario_id)
       \/ Responde(p, req[p], InternalError, 0)
    /\ UNCHANGED <<users, transactions, relogio>>

\* ---- login (POST /login) --------------------------------------------------
\* the select by username, the check of the password and the token, whose
\* subject is the id of the user
login(p) ==
    /\ Livre
    /\ pc[p] = "idle"
    /\ \E username \in Usernames, password \in Senhas :
        LET q == [NoReq EXCEPT !.op = "login", !.username = username,
                               !.password = password]
            usuario == SelectUsuario(username)
        IN  IF usuario = <<>> \/ ~verify_password(password, usuario[1].password)
            THEN Responde(p, q, InvalidCredentials, 0)
            ELSE Responde(p, q, Ok, usuario[1].id)
    /\ UNCHANGED <<db, relogio>>

\* ---- criar_conta (POST /contas/) -----------------------------------------
\* the caller is authenticated: current_user is the id of a registered user
criar_conta_add(p) ==
    /\ Livre
    /\ pc[p] = "idle"
    /\ CabeMais
    /\ \E current_user \in 1..Len(users) :
        Suspende(p, [NoReq EXCEPT !.op = "criar_conta", !.current_user = current_user],
                 "commit_nova_conta", NoSession)
    /\ UNCHANGED <<db, relogio>>

\* variant of criar_conta_commit that allows one account per user
criar_conta_commit_umaPorUsuario(p) ==
    /\ Livre
    /\ pc[p] = "commit_nova_conta"
    /\ IF \E a \in 1..Len(accounts) : accounts[a].user_id = req[p].current_user
       THEN /\ Responde(p, req[p], [status |-> 400, detail |-> "Conta ja existe"], 0)
            /\ UNCHANGED accounts
       ELSE /\ accounts' = Append(accounts,
                                 [user_id |-> req[p].current_user, balance |-> 0])
            /\ \/ Responde(p, req[p], Ok, Len(accounts) + 1)
               \/ Responde(p, req[p], InternalError, 0)
    /\ UNCHANGED <<users, transactions, relogio>>

\* session.commit(): INSERT INTO accounts; then session.refresh(nova_conta)
\* and return nova_conta, or the refresh raises
criar_conta_commit(p) ==
    /\ Livre
    /\ pc[p] = "commit_nova_conta"
    /\ accounts' = Append(accounts, [user_id |-> req[p].current_user, balance |-> 0])
    /\ \/ Responde(p, req[p], Ok, Len(accounts) + 1)
       \/ Responde(p, req[p], InternalError, 0)
    /\ UNCHANGED <<users, transactions, relogio>>

\* ---- criar_transacao (POST /transacoes/) ---------------------------------
\* the select of the account, the checks, the new balance set on the
\* session's Account object and the Transaction added to the session
criar_transacao_select(p) ==
    /\ Livre
    /\ pc[p] = "idle"
    /\ CabeMais
    /\ \E current_user \in 1..Len(users), account_id \in AccountIds,
          amount \in Amounts, type \in Types :
        LET conta == SelectAccount(account_id)
            erro  == Validar(conta, current_user, amount, type)
            q     == [NoReq EXCEPT !.op = "criar_transacao",
                                   !.current_user = current_user,
                                   !.account_id = account_id,
                                   !.amount = amount, !.type = type]
        IN  IF erro # Ok
            THEN /\ Responde(p, q, erro, 0)
                 /\ UNCHANGED relogio
            ELSE /\ Suspende(p, q, "commit_transacao",
                        [NoSession EXCEPT
                           !.conta_id = conta[1].id,
                           !.balance = NovoSaldo(conta[1].balance, amount, type),
                           !.timestamp = relogio])
                 /\ relogio' = relogio + 1
    /\ UNCHANGED db

\* variant of criar_transacao_commit whose Transaction was never added to the
\* session: the commit writes the balance alone
criar_transacao_commit_semInsert(p) ==
    /\ Livre
    /\ pc[p] = "commit_transacao"
    /\ accounts' = [accounts EXCEPT ![session[p].conta_id].balance = session[p].balance]
    /\ \/ Responde(p, req[p], Ok, 0)
       \/ Responde(p, req[p], InternalError, 0)
    /\ UNCHANGED <<users, transactions, relogio>>

\* variant of criar_transacao_commit that writes its row over the last row of
\* the ledger
criar_transacao_commit_reescreve(p) ==
    /\ Livre
    /\ pc[p] = "commit_transacao"
    /\ accounts' = [accounts EXCEPT ![session[p].conta_id].balance = session[p].balance]
    /\ LET row == [account_id |-> session[p].conta_id,
                   amount |-> req[p].amount,
                   type |-> req[p].type,
                   timestamp |-> session[p].timestamp]
       IN  transactions' = IF transactions = <<>> THEN <<row>>
                           ELSE [transactions EXCEPT ![Len(transactions)] = row]
    /\ \/ Responde(p, req[p], Ok, Len(transactions'))
       \/ Responde(p, req[p], InternalError, 0)
    /\ UNCHANGED <<users, relogio>>

\* variant of criar_transacao_commit that reads the account again and repeats
\* the checks inside the committing transaction
criar_transacao_commit_relido(p) ==
    /\ Livre
    /\ pc[p] = "commit_transacao"
    /\ LET conta == SelectAccount(session[p].conta_id)
           erro  == Validar(conta, req[p].current_user, req[p].amount, req[p].type)
       IN  IF erro # Ok
           THEN /\ Responde(p, req[p], erro, 0)
                /\ UNCHANGED <<accounts, transactions>>
           ELSE /\ accounts' = [accounts EXCEPT ![session[p].conta_id].balance =
                                  NovoSaldo(conta[1].balance, req[p].amount, req[p].type)]
                /\ transactions' = Append(transactions,
                                      [account_id |-> session[p].conta_id,
                                       amount |-> req[p].amount,
                                       type |-> req[p].type,
                                       timestamp |-> session[p].timestamp])
                /\ \/ Responde(p, req[p], Ok, Len(transactions) + 1)
                   \/ Responde(p, req[p], InternalError, 0)
    /\ UNCHANGED <<users, relogio>>

\* session.commit(): the flush writes UPDATE accounts SET balance = <the
\* value held by the session> and INSERT INTO transactions in one database
\* transaction; then the two session.refresh calls and return
\* nova_transacao, or a refresh raises
criar_transacao_commit(p) ==
    /\ Livre
    /\ pc[p] = "commit_transacao"
    /\ accounts' = [accounts EXCEPT ![session[p].conta_id].balance = session[p].balance]
    /\ transactions' = Append(transactions,
                          [account_id |-> session[p].conta_id,
                           amount |-> req[p].amount,
                           type |-> req[p].type,
                           timestamp |-> session[p].timestamp])
    /\ \/ Responde(p, req[p], Ok, Len(transactions) + 1)
       \/ Responde(p, req[p], InternalError, 0)
    /\ UNCHANGED <<users, relogio>>

\* ---- extrato (GET /contas/{user_id}/extrato) ------------------------------
\* the check of the caller, the select of the ids of the user's accounts and
\* the check of its result
extrato_select_contas(p) ==
    /\ Livre
    /\ pc[p] = "idle"
    /\ \E current_user \in 1..Len(users), user_id \in 1..(Len(users) + 1) :
        LET q == [NoReq EXCEPT !.op = "extrato", !.user_id = user_id,
                               !.current_user = current_user]
            account_ids == SelectAccountIds(user_id)
        IN  IF NaoAutorizado(user_id, current_user)
            THEN Responde(p, q, Unauthorized, 0)
            ELSE IF account_ids = {}
            THEN Responde(p, q, NoAccountsFound, 0)
            ELSE Suspende(p, q, "select_transacoes",
                          [NoSession EXCEPT !.account_ids = account_ids])
    /\ UNCHANGED <<db, relogio>>

\* the select of the transactions of those accounts; return transacoes
extrato_select_transacoes(p) ==
    /\ Livre
    /\ pc[p] = "select_transacoes"
    /\ RespondeLista(p, req[p],
                     SelectTransactions(session[p].account_ids, Len(transactions)))
    /\ UNCHANGED <<db, relogio>>

\* ---- failure of an awaited storage call before its commit -----------------
\* the exception leaves the `async with async_session()` block: the session
\* is closed, what it had not committed is rolled back, what it had
\* committed stays
falha(p) ==
    /\ Livre
    /\ pc[p] # "idle"
    /\ Responde(p, req[p], InternalError, 0)
    /\ UNCHANGED <<db, relogio>>

\* the stretches of the handlers that write a table (and their failure)
Step(p) ==
    \/ criar_usuario_select(p)
    \/ criar_usuario_commit(p)
    \/ criar_usuario_commit_conta(p)
    \/ criar_conta_add(p)
    \/ criar_conta_commit(p)
    \/ criar_transacao_select(p)
    \/ criar_transacao_commit(p)
    \/ falha(p)

Next ==
    \/ \E p \in Requests : Step(p)
    \/ entrega

Spec == Init /\ [][Next]_vars

\* the stretches of the handlers that only read
Leitura(p) ==
    \/ login(p)
    \/ extrato_select_contas(p)
    \/ extrato_select_transacoes(p)

\* all five handlers.  login and extrato write no table and no handler reads
\* what another one holds in its session, so the handlers of Step take the
\* same steps on the tables under Next and under NextApp
NextApp ==
    \/ \E p \in Requests : Step(p)
    \/ \E p \in Requests : Leitura(p)
    \/ entrega

SpecApp == Init /\ [][NextApp]_vars

\* requests executed one after another: a handler runs only while no other
\* request is in flight
Sozinho(p) == \A q \in Requests \ {p} : pc[q] = "idle"

NextSeq ==
    \/ \E p \in Requests : Sozinho(p) /\ criar_usuario_select(p)
    \/ \E p \in Requests : Sozinho(p) /\ criar_usuario_commit(p)
    \/ \E p \in Requests : Sozinho(p) /\ criar_usuario_commit_conta(p)
    \/ \E p \in Requests : Sozinho(p) /\ criar_conta_add(p)
    \/ \E p \in Requests : Sozinho(p) /\ criar_conta_commit(p)
    \/ \E p \in Requests : Sozinho(p) /\ criar_transacao_select(p)
    \/ \E p \in Requests : Sozinho(p) /\ criar_transacao_commit(p)
    \/ \E p \in Requests : Sozinho(p) /\ falha(p)
    \/ entrega

SpecSeq == Init /\ [][NextSeq]_vars

\* ==== properties ============================================================

Contas == 1..Len(accounts)

\* sum of the amounts of the rows of txs of one type that reference account a
RECURSIVE Soma(_, _, _)
Soma(txs, a, type) ==
    IF txs = <<>> THEN 0
    ELSE (IF Head(txs).account_id = a /\ Head(txs).type = type
          THEN Head(txs).amount ELSE 0) + Soma(Tail(txs), a, type)

\* C1: when requests are executed one after another, the stored balance of
\* every account equals the sum of its deposits minus the sum of its
\* withdrawals (checked under SpecSeq)
SaldoIgualLedger ==
    \A a \in Contas :
        accounts[a].balance
            = Soma(transactions, a, "deposit") - Soma(transactions, a, "withdrawal")

\* an account that has received a deposit and then a smaller withdrawal
W_SaldoIgualLedger ==
    \E a \in Contas :
        /\ Soma(transactions, a, "deposit") = 2
        /\ Soma(transactions, a, "withdrawal") = 1
        /\ \A q \in Requests : pc[q] = "idle"

\* C2: the stored balance of every account is >= 0 in every reachable state,
\* under every interleaving of the handlers
SaldoNaoNegativo == \A a \in Contas : accounts[a].balance >= 0

\* two withdrawals of the same account, both past the check and before their
\* commit, whose amounts together exceed the stored balance
W_SaldoNaoNegativo ==
    \E p, q \in Requests :
        /\ p # q
        /\ pc[p] = "commit_transacao" /\ pc[q] = "commit_transacao"
        /\ req[p].type = "withdrawal" /\ req[q].type = "withdrawal"
        /\ req[p].account_id = req[q].account_id
        /\ req[p].amount + req[q].amount > accounts[req[p].account_id].balance

\* C3: the stored balance stays equal to deposits minus withdrawals when
\* postings on the same account interleave: no committed posting is lost
NenhumLancamentoPerdido ==
    \A a \in Contas :
        accounts[a].balance + Soma(transactions, a, "withdrawal")
            = Soma(transactions, a, "deposit")

\* C4: registration is atomic: no state shows a user without an account
UsuarioTemConta ==
    \A u \in 1..Len(users) : \E a \in Contas : accounts[a].user_id = u

\* C5: in every step, a stored balance changes only together with the append
\* of the posting's Transaction row, and a Transaction row is appended only
\* together with the write of the balance the posting computed; a failing
\* step changes neither
PostagemAtomica ==
    [][ /\ \A a \in Contas :
            accounts'[a].balance # accounts[a].balance
              => /\ Len(transactions') = Len(transactions) + 1
                 /\ SubSeq(transactions', 1, Len(transactions)) = transactions
                 /\ transactions'[Len(transactions')].account_id = a
        /\ transactions' # transactions
              => \E p \in Requests :
                   /\ pc[p] = "commit_transacao"
                   /\ transactions' = Append(transactions,
                          [account_id |-> req[p].account_id, amount |-> req[p].amount,
                           type |-> req[p].type, timestamp |-> session[p].timestamp])
                   /\ accounts'[req[p].account_id].balance = session[p].balance
                   /\ \A a \in Contas \ {req[p].account_id} : accounts'[a] = accounts[a]
      ]_vars

\* a posting was committed and its handler then failed
W_PostagemAtomica ==
    /\ resp.de.op = "criar_transacao"
    /\ resp.status = InternalError.status
    /\ \E i \in 1..Len(transactions) :
         /\ transactions[i].account_id = resp.de.account_id
         /\ transactions[i].amount = resp.de.amount
         /\ transactions[i].type = resp.de.type

\* ---- the first stretch of a handler, as a step ------------------------------
\* slot p runs the first stretch of handler op: from idle, it either is
\* suspended at its commit or has answered at once (no slot leaves an await)
Primeiro(p, op) ==
    /\ pc[p] = "idle"
    /\ \/ pc'[p] # "idle" /\ req'[p].op = op
       \/ pc' = pc /\ resp' # resp /\ resp'.de.op = op

\* the request that step serves, and its outcome so far (Ok: no check failed)
Pedido(p) == IF pc'[p] # "idle" THEN req'[p] ELSE resp'.de

Resultado(p) ==
    IF pc'[p] # "idle" THEN Ok ELSE [status |-> resp'.status, detail |-> resp'.detail]

Existe(q) == q.account_id \in Contas

Dono(q) == Existe(q) /\ accounts[q.account_id].user_id = q.current_user

\* C6: a withdrawal by the owner whose amount exceeds the balance stored when
\* the handler reads the account fails with InsufficientFunds, and the step
\* changes no balance and appends no Transaction
SaqueSemSaldo ==
    [][ \A p \in Requests :
          ( /\ Primeiro(p, "criar_transacao")
            /\ Dono(Pedido(p))
            /\ Pedido(p).type = "withdrawal"
            /\ Pedido(p).amount > accounts[Pedido(p).account_id].balance )
          => /\ Resultado(p) = InsufficientFunds
             /\ accounts' = accounts
             /\ transactions' = transactions
      ]_vars

\* the owner of an account holding 1 was refused a withdrawal of 2
W_SaqueSemSaldo ==
    /\ resp.de.op = "criar_transacao"
    /\ resp.de.type = "withdrawal"
    /\ resp.de.amount = 2
    /\ Dono(resp.de)
    /\ accounts[resp.de.account_id].balance = 1
    /\ resp.status = InsufficientFunds.status
    /\ resp.detail = InsufficientFunds.detail

\* C7, as claimed: a posting on an account id that no Account has fails with
\* an outcome other than Unauthorized
ContaInexistenteDistinta ==
    (resp.de.op = "criar_transacao" /\ ~Existe(resp.de))
        => (resp.status # Unauthorized.status \/ resp.detail # Unauthorized.detail)

\* C7, amended: a posting on an account id that no Account has fails with
\* Unauthorized, the outcome of a posting on another user's account
ContaInexistenteNaoAutorizada ==
    (resp.de.op = "criar_transacao" /\ (~Existe(resp.de) \/ ~Dono(resp.de)))
        => (resp.status = Unauthorized.status /\ resp.detail = Unauthorized.detail)

\* an otherwise valid deposit on an account id that no Account has was answered
W_ContaInexistenteNaoAutorizada ==
    /\ resp.de.op = "criar_transacao"
    /\ ~Existe(resp.de)
    /\ resp.de.amount > 0
    /\ resp.de.type = "deposit"
    /\ resp.status = Unauthorized.status

\* C8: the checks of a posting, in the order of the claim, each with the
\* condition under which it fails and the error it reports
Cheques == 1..5

FalhaCheque(i, q) ==
    CASE i = 1 -> ~Existe(q)
      [] i = 2 -> Existe(q) /\ ~Dono(q)
      [] i = 3 -> q.amount <= 0
      [] i = 4 -> q.type \notin {"deposit", "withdrawal"}
      [] i = 5 -> /\ q.type = "withdrawal"
                  /\ Existe(q)
                  /\ q.amount > accounts[q.account_id].balance

ErroCheque(i) ==
    CASE i = 1 -> Unauthorized
      [] i = 2 -> Unauthorized
      [] i = 3 -> InvalidAmount
      [] i = 4 -> InvalidTransactionType
      [] i = 5 -> InsufficientFunds

\* C8: a posting reports the error of the first check that fails, and passes
\* the checks only when none fails
PrimeiraFalhaVence ==
    [][ \A p \in Requests :
          Primeiro(p, "criar_transacao")
          => LET falhas == {i \in Cheques : FalhaCheque(i, Pedido(p))}
             IN  IF falhas = {}
                 THEN Resultado(p) = Ok
                 ELSE \E i \in falhas :
                        /\ \A j \in falhas : i <= j
                        /\ Resultado(p) = ErroCheque(i)
      ]_vars

\* the owner posted an amount <= 0 with an unknown type and got InvalidAmount
W_PrimeiraFalhaVence ==
    /\ resp.de.op = "criar_transacao"
    /\ Dono(resp.de)
    /\ resp.de.amount <= 0
    /\ resp.de.type = "transfer"
    /\ resp.status = InvalidAmount.status
    /\ resp.detail = InvalidAmount.detail

\* C9, as claimed: every posting with amount <= 0 fails with InvalidAmount
ValorInvalidoSempre ==
    (resp.de.op = "criar_transacao" /\ resp.de.amount <= 0)
        => (resp.status = InvalidAmount.status /\ resp.detail = InvalidAmount.detail)

\* C9, amended: a posting with amount <= 0 fails with InvalidAmount when the
\* caller owns the account and with Unauthorized otherwise, whatever its
\* type and the balance, and the step changes no table
ValorInvalidoDoDono ==
    [][ \A p \in Requests :
          (Primeiro(p, "criar_transacao") /\ Pedido(p).amount <= 0)
          => /\ Resultado(p) = IF Dono(Pedido(p)) THEN InvalidAmount ELSE Unauthorized
             /\ db' = db
      ]_vars

\* the owner of an account with a positive balance deposited 0 and got
\* InvalidAmount
W_ValorInvalidoDoDono ==
    /\ resp.de.op = "criar_transacao"
    /\ resp.de.amount = 0
    /\ resp.de.type = "deposit"
    /\ Dono(resp.de)
    /\ accounts[resp.de.account_id].balance > 0
    /\ resp.status = InvalidAmount.status
    /\ resp.detail = InvalidAmount.detail

\* C10: a registration whose username is registered when the handler looks
\* it up fails with DuplicateUsername and leaves users and accounts as they
\* were
UsernameDuplicado ==
    [][ \A p \in Requests :
          ( /\ Primeiro(p, "criar_usuario")
            /\ \E u \in 1..Len(users) : users[u].username = Pedido(p).username )
          => /\ Resultado(p) = DuplicateUsername
             /\ users' = users
             /\ accounts' = accounts
      ]_vars

\* the second registration of a username was refused
W_UsernameDuplicado ==
    /\ resp.de.op = "criar_usuario"
    /\ \E u \in 1..Len(users) : users[u].username = resp.de.username
    /\ resp.status = DuplicateUsername.status
    /\ resp.detail = DuplicateUsername.detail

\* C11: when two registrations of one username interleave, the one that
\* commits second finds the username taken: it ends with DuplicateUsername
\* and adds no user, and no two users ever share a username
RegistroConcorrente ==
    [][ /\ \A p \in Requests :
            ( /\ pc[p] = "commit_usuario"
              /\ \E u \in 1..Len(users) : users[u].username = req[p].username
              /\ pc'[p] = "idle" )
            => /\ resp'.status = DuplicateUsername.status
               /\ resp'.detail = DuplicateUsername.detail
               /\ users' = users
        /\ \A u, v \in 1..Len(users') :
            users'[u].username = users'[v].username => u = v
      ]_vars

\* the accounts owned by user u
ContasDe(u) == {a \in Contas : accounts[a].user_id = u}

\* the response being sent answers a statement request of its own user
ExtratoProprio ==
    /\ resp.de.op = "extrato"
    /\ resp.de.user_id = resp.de.current_user

\* ids lists, in ascending order and without repetition, exactly the stored
\* transactions whose account is in K
ListaDe(ids, K) ==
    /\ \A i, j \in 1..Len(ids) : i < j => ids[i] < ids[j]
    /\ {ids[i] : i \in 1..Len(ids)}
         = {t \in 1..Len(transactions) : transactions[t].account_id \in K}

\* C12: a statement request for a user other than the caller is answered
\* Unauthorized and carries no transaction, whether or not the target user
\* exists or owns an account
ExtratoAlheioNegado ==
    (resp.de.op = "extrato" /\ resp.de.user_id # resp.de.current_user)
        => /\ resp.status = Unauthorized.status
           /\ resp.detail = Unauthorized.detail
           /\ resp.body = <<>>

\* a statement request for another, existing user whose account holds a
\* transaction has been answered
W_ExtratoAlheioNegado ==
    /\ resp.de.op = "extrato"
    /\ resp.de.user_id # resp.de.current_user
    /\ resp.de.user_id \in 1..Len(users)
    /\ \E t \in 1..Len(transactions) :
           transactions[t].account_id \in ContasDe(resp.de.user_id)

Novos == (Len(transactions) + 1)..Len(transactions')

\* the Transaction row that the posting of slot p inserts
Lancamento(p) ==
    [account_id |-> req[p].account_id, amount |-> req[p].amount,
     type |-> req[p].type, timestamp |-> session[p].timestamp]

\* C14: a step that changes the balance of an account, or appends a
\* Transaction referencing it, is the commit of a posting whose caller owns
\* that account; every appended Transaction references an existing account,
\* and no step changes the owner of an account
SoDonoMovimenta ==
    [][ /\ \A a \in Contas :
            ( \/ accounts'[a].balance # accounts[a].balance
              \/ \E t \in Novos : transactions'[t].account_id = a )
            => \E p \in Requests :
                 /\ pc[p] = "commit_transacao" /\ pc'[p] = "idle"
                 /\ req[p].account_id = a
                 /\ accounts[a].user_id = req[p].current_user
        /\ \A t \in Novos : transactions'[t].account_id \in Contas
        /\ \A a \in Contas : accounts'[a].user_id = accounts[a].user_id
      ]_vars

\* with two users registered, one has posted to their own account
W_SoDonoMovimenta ==
    /\ resp.de.op = "criar_transacao"
    /\ resp.status = Ok.status
    /\ Len(users) = 2
    /\ accounts[resp.de.account_id].user_id = resp.de.current_user
    /\ \E a \in Contas : accounts[a].user_id # resp.de.current_user

\* C15: every stored Transaction has an amount > 0 and the type deposit or
\* withdrawal
LancamentoValido ==
    \A t \in 1..Len(transactions) :
        /\ transactions[t].amount > 0
        /\ transactions[t].type \in {"deposit", "withdrawal"}

\* the ledger holds a deposit and a withdrawal
W_LancamentoValido ==
    /\ \E t \in 1..Len(transactions) : transactions[t].type = "deposit"
    /\ \E t \in 1..Len(transactions) : transactions[t].type = "withdrawal"

RegistroCriaUsuarioEConta ==
    [][ \A p \in Requests :
          /\ (pc[p] = "idle" /\ pc'[p] = "commit_usuario") => db' = db
          /\ (pc[p] = "commit_usuario" /\ pc'[p] = "commit_conta")
               => /\ users' = Append(users, [username |-> req[p].username,
                                             password |-> <<"bcrypt", req[p].password>>])
                  /\ session'[p].usuario_id = Len(users')
                  /\ accounts' = accounts /\ transactions' = transactions
          /\ (pc[p] = "commit_conta" /\ pc'[p] = "idle" /\ resp'.status = Ok.status)
               => /\ resp'.id \in 1..Len(users)
                  /\ users[resp'.id].username = req[p].username
                  /\ accounts' = Append(accounts, [user_id |-> resp'.id, balance |-> 0])
                  /\ users' = users /\ transactions' = transactions
      ]_vars

\* the second of two registrations has succeeded
W_RegistroCriaUsuarioEConta ==
    /\ resp.de.op = "criar_usuario"
    /\ resp.status = Ok.status
    /\ resp.id = 2
    /\ accounts[Len(accounts)] = [user_id |-> 2, balance |-> 0]

\* C18: a posting that has passed its checks is not checked again: unless
\* the storage fails, its commit succeeds, writes the balance computed from
\* the balance it read and inserts its row, whatever was committed to the
\* account meanwhile.  So two withdrawals that read the same balance both
\* succeed
SaqueConcorrentePassa ==
    [][ \A p \in Requests :
          (pc[p] = "commit_transacao" /\ pc'[p] = "idle"
              /\ resp'.status # InternalError.status)
          => /\ resp'.status = Ok.status
             /\ transactions' = Append(transactions, Lancamento(p))
             /\ accounts'[req[p].account_id].balance = session[p].balance
      ]_vars

\* a withdrawal has succeeded on an account whose committed withdrawals
\* exceed its committed deposits
W_SaqueConcorrentePassa ==
    /\ resp.de.op = "criar_transacao"
    /\ resp.de.type = "withdrawal"
    /\ resp.status = Ok.status
    /\ Soma(transactions, resp.de.account_id, "withdrawal")
         > Soma(transactions, resp.de.account_id, "deposit")

\* C19: opening an account has no check that can refuse it: unless the
\* storage fails, the request succeeds, appends one account of balance 0
\* owned by the caller and returns its id, however many accounts the caller
\* holds; it changes no existing account, no user and no transaction
AbrirContaSempre ==
    [][ /\ \A p \in Requests :
            /\ (pc[p] = "idle" /\ pc'[p] = "commit_nova_conta") => db' = db
            /\ (pc[p] = "commit_nova_conta" /\ pc'[p] = "idle"
                  /\ resp'.status # InternalError.status)
                 => /\ resp'.status = Ok.status
                    /\ accounts' = Append(accounts, [user_id |-> req[p].current_user,
                                                     balance |-> 0])
                    /\ resp'.id = Len(accounts')
                    /\ users' = users /\ transactions' = transactions
        /\ (resp' # resp /\ resp'.de.op = "criar_conta")
             => resp'.status \in {Ok.status, InternalError.status}
      ]_vars

\* a user who held two accounts has opened a third
W_AbrirContaSempre ==
    /\ resp.de.op = "criar_conta"
    /\ resp.status = Ok.status
    /\ Cardinality(ContasDe(resp.de.current_user)) = 3

\* C20: a successful posting changes the stored balance of its account by
\* +amount for a deposit and by -amount for a withdrawal, appends one
\* Transaction referencing it and leaves every other account, every owner
\* and the users unchanged; a posting refused by a check changes nothing
PostagemSoMexeNaConta ==
    [][ /\ \A p \in Requests :
            (pc[p] = "commit_transacao" /\ pc'[p] = "idle" /\ resp'.status = Ok.status)
            => /\ accounts'[req[p].account_id].balance
                    = IF req[p].type = "deposit"
                      THEN accounts[req[p].account_id].balance + req[p].amount
                      ELSE accounts[req[p].account_id].balance - req[p].amount
               /\ transactions' = Append(transactions, Lancamento(p))
               /\ Len(accounts') = Len(accounts)
               /\ \A a \in Contas :
                    /\ accounts'[a].user_id = accounts[a].user_id
                    /\ a # req[p].account_id => accounts'[a] = accounts[a]
               /\ users' = users
        /\ (resp' # resp /\ resp'.de.op = "criar_transacao"
                /\ resp'.status \in {Unauthorized.status, InvalidAmount.status})
             => db' = db
      ]_vars

====
